---- MODULE Spec2Model ----
(***************************************************************************)
(* Model of src/server.js: the key-system API.                             *)
(*                                                                         *)
(* sessions and keys are the two MongoDB collections, activeSessions is    *)
(* the process-wide Map.  A request handler is split at its awaits: store  *)
(* operations (findOne, insertOne, updateOne) are atomic per document, the *)
(* code between two awaits runs in one piece (one JavaScript thread), and  *)
(* a handler waiting on the store keeps its local variables in             *)
(* inflight[h].  The response a handler sends is a function of what it has *)
(* read: the ...Response operators compute it, Await standing for "no      *)
(* response yet, the handler goes on to its next store operation".         *)
(***************************************************************************)
EXTENDS Integers, Sequences, FiniteSets, TLC

VARIABLES
    now,            \* Date.now(), in milliseconds since the process started
    ticks,          \* number of clock advances so far (bounds the run)
    sessions,       \* db.collection('sessions'): sequence of documents
    keys,           \* db.collection('keys'): sequence of documents
    generated,      \* number of keys generateKey() has produced
    activeSessions, \* the Map sessionId -> {code, checkpoint, hwid, createdAt}
    inflight,       \* per handler: the locals of a request waiting on the store
    redeemed        \* history: per key, the success responses /api/verify sent

vars == <<now, ticks, sessions, keys, generated, activeSessions, inflight,
          redeemed>>

----------------------------------------------------------------------------
(* Bounds of the model *)

MaxKeys == 1
MaxIssues == 2
MaxCheckpoints == 2
MaxTicks == 1

Handlers == {1, 2}
SessionIds == {1, 2}
OneSession == {1}

(* Program constants *)

KEY_EXPIRY_HOURS == 24
PENDING_TTL_MS == 600000
HexDigestLen == 64

KEY_EXPIRY_MS == KEY_EXPIRY_HOURS * 60 * 60 * 1000

(* Inputs *)

IPs == {<<"ip1">>, <<"ip2">>}
OneIP == {<<"ip1">>}
UserAgents == {<<"ua">>}
TickSteps == {1, PENDING_TTL_MS, KEY_EXPIRY_MS}
KnownCheckpoints == {"task1", "task2"}
CheckpointIds == KnownCheckpoints \cup {"task3"}
GenCodes == {<<"A", "7">>, <<"B", "7">>}
OneCode == {<<"A", "7">>}
ClientCodes == {<<"A", "7">>, <<"a", "7">>, <<"B", "7">>}

Idle == [op |-> "idle"]
NoEntry == [code |-> << >>]
NoKeyRef == 0

----------------------------------------------------------------------------
(* Helper functions *)

generateHWID(ip, userAgent) == [sha256 |-> ip \o userAgent]

HWIDs == {generateHWID(ip, ua) : ip \in IPs, ua \in UserAgents}

\* An HMAC over the first two fields of the payload only.
signFirstTwo(data) == [hmac |-> SubSeq(data, 1, 2), len |-> HexDigestLen]

\* The HMAC is a keyed injective function of the serialized payload; a
\* payload is the sequence of <<field, value>> pairs JSON.stringify emits.
\* The digest is HexDigestLen characters long.
signData(data) == [hmac |-> data, len |-> HexDigestLen]

\* crypto.timingSafeEqual throws a RangeError when the two buffers differ in
\* length, and compares them otherwise.
verifySignature(data, signature) ==
    IF signature.len # signData(data).len THEN "throw"
    ELSE IF signature = signData(data) THEN "true" ELSE "false"

UpperChar(c) == CASE c = "a" -> "A" [] c = "b" -> "B" [] OTHER -> c

\* A toUpperCase that leaves every character as it is.
keepCase(s) == s

toUpperCase(s) == [i \in DOMAIN s |-> UpperChar(s[i])]

\* { sessionId, hwid, timestamp }
StartPayload(s) ==
    << <<"sessionId", s.sessionId>>, <<"hwid", s.hwid>>,
       <<"timestamp", s.timestamp>> >>

\* { sessionId, hwid: session.hwid }
IdPayload(s) == << <<"sessionId", s.sessionId>>, <<"hwid", s.hwid>> >>

\* { sessionId, hwid: session.hwid, checkpoint: checkpointId }
CheckpointPayload(s, cp) ==
    << <<"sessionId", s.sessionId>>, <<"hwid", s.hwid>>, <<"checkpoint", cp>> >>

\* The tags the server returns: by /api/start and /api/verify-checkpoint-code,
\* and by /api/checkpoint.
startSignature(s) == signData(StartPayload(s))
newSignature(s, cp) == signData(CheckpointPayload(s, cp))

ForgedTag == [hmac |-> << >>, len |-> HexDigestLen]
ShortTag == [hmac |-> << >>, len |-> 3]

\* The signatures a request for session sid may carry: the three tags the
\* server computes for that session, the tags of the other sessions, a forged
\* tag of the right length and one of another length.
Signatures(sid) ==
    {ForgedTag, ShortTag}
    \cup {startSignature(sessions[i]) : i \in DOMAIN sessions}
    \cup {signData(IdPayload(sessions[i])) : i \in DOMAIN sessions}
    \cup {newSignature(sessions[i], "task1") : i \in DOMAIN sessions \cap {sid}}

\* A checkpoints array holds bare strings (pushed by /api/checkpoint) and
\* objects {id, completedAt, verified} (pushed by /api/verify-checkpoint-code).
StrEntry(cp) ==
    [kind |-> "string", id |-> cp, completedAt |-> 0, verified |-> FALSE]
ObjEntry(cp, t) ==
    [kind |-> "object", id |-> cp, completedAt |-> t, verified |-> TRUE]

\* session.checkpoints.includes(cp), cp a string: strict equality, which no
\* object satisfies
includesString(checkpoints, cp) ==
    \E i \in DOMAIN checkpoints :
        checkpoints[i].kind = "string" /\ checkpoints[i].id = cp

\* session.checkpoints.map(cp => cp.id), as the set of the strings in it: a
\* bare string has no .id, so it contributes undefined, which equals no
\* checkpoint name
completedIds(checkpoints) ==
    {checkpoints[i].id : i \in {j \in DOMAIN checkpoints :
                                    checkpoints[j].kind = "object"}}

requiredCheckpoints == <<"task1", "task2">>

\* An issuance check that is content with one required checkpoint.
hasSomeCheckpoint(checkpoints) ==
    \E i \in DOMAIN requiredCheckpoints :
        includesString(checkpoints, requiredCheckpoints[i])

hasAllCheckpoints(checkpoints) ==
    \A i \in DOMAIN requiredCheckpoints :
        includesString(checkpoints, requiredCheckpoints[i])

\* db.collection('keys').findOne({ key }): the first matching document
HasKey(k) == \E i \in DOMAIN keys : keys[i].key = k

KeyIndex(k) ==
    CHOOSE i \in DOMAIN keys :
        keys[i].key = k /\ \A j \in 1..(i - 1) : keys[j].key # k

FindKey(k) == keys[KeyIndex(k)]

\* An expiry check that is one millisecond late.
isExpiredLate(keyDoc, t) == keyDoc.expiresAt + 1 < t

\* keyDoc.expiresAt < Date.now()
isExpired(keyDoc, t) == keyDoc.expiresAt < t

\* A staleness test that is met at the TTL itself.
isStaleAtTTL(data, t) == t - data.createdAt >= PENDING_TTL_MS

\* Date.now() - data.createdAt > 600000
isStale(data, t) == t - data.createdAt > PENDING_TTL_MS

\* the cleanup loop of /api/get-workink-link
sweep(map, t) ==
    [sid \in DOMAIN map |->
        IF map[sid] # NoEntry /\ isStale(map[sid], t) THEN NoEntry ELSE map[sid]]

----------------------------------------------------------------------------
(* Responses *)

Rsp(status, success, text) ==
    [status |-> status, success |-> success, text |-> text]

Await == Rsp(0, FALSE, "await")

MissingParameters == Rsp(400, FALSE, "Missing parameters")
InvalidSession == Rsp(404, FALSE, "Invalid session")
\* the catch block: res.status(500) with the RangeError's message
Thrown == Rsp(500, FALSE, "Input buffers must have the same byte length")
InvalidSignature == Rsp(403, FALSE, "Invalid signature")
GateInvalidSignature == Rsp(403, FALSE, "Invalid signature - tampering detected")
AlreadyCompleted == Rsp(200, TRUE, "Checkpoint already completed")
NotAllCheckpoints == Rsp(403, FALSE, "Not all checkpoints completed")
InvalidCheckpoint == Rsp(400, FALSE, "Invalid checkpoint")
GateOpened == Rsp(200, TRUE, "Complete the Work.ink task, then return and enter your code")
NoPendingVerification == Rsp(404, FALSE, "No pending verification")
InvalidCode == Rsp(403, FALSE, "Invalid verification code")
InvalidKey == Rsp(200, FALSE, "Invalid key")
HwidMismatch == Rsp(200, FALSE, "HWID mismatch")
KeyExpired == Rsp(200, FALSE, "Key expired")
KeyAlreadyUsed == Rsp(200, FALSE, "Key already used")

\* sessionId 0 stands for a request without a sessionId, key 0 for one
\* without a key
Missing(id) == id = 0

Found(sid) == sid \in DOMAIN sessions

\* What a tagged handler answers up to its signature check.
tagResponse(sid, payload, signature, invalid) ==
    IF Missing(sid) THEN MissingParameters
    ELSE IF ~Found(sid) THEN InvalidSession
    ELSE LET valid == verifySignature(payload, signature)
         IN IF valid = "throw" THEN Thrown
            ELSE IF valid = "false" THEN invalid
            ELSE Await

\* POST /api/checkpoint, up to the call of updateOne
directResponse(sid, signature, checkpointId) ==
    LET r == tagResponse(sid, IF Found(sid) THEN IdPayload(sessions[sid]) ELSE << >>,
                         signature, InvalidSignature)
    IN IF r # Await THEN r
       ELSE IF includesString(sessions[sid].checkpoints, checkpointId)
       THEN AlreadyCompleted
       ELSE Await

\* A /api/getkey that refuses a session already completed.
issueOnceResponse(sid, signature) ==
    LET r == tagResponse(sid, IF Found(sid) THEN IdPayload(sessions[sid]) ELSE << >>,
                         signature, InvalidSignature)
    IN IF r # Await THEN r
       ELSE IF sessions[sid].completed \/ ~hasAllCheckpoints(sessions[sid].checkpoints)
       THEN NotAllCheckpoints
       ELSE Await

\* POST /api/getkey, up to the call of insertOne
issueResponse(sid, signature) ==
    LET r == tagResponse(sid, IF Found(sid) THEN IdPayload(sessions[sid]) ELSE << >>,
                         signature, InvalidSignature)
    IN IF r # Await THEN r
       ELSE IF ~hasAllCheckpoints(sessions[sid].checkpoints)
       THEN NotAllCheckpoints
       ELSE Await

\* POST /api/get-workink-link, up to activeSessions.set
gateTagResponse(sid, signature) ==
    tagResponse(sid, IF Found(sid) THEN StartPayload(sessions[sid]) ELSE << >>,
                signature, GateInvalidSignature)

\* POST /api/get-workink-link: the whole handler
gateResponse(sid, signature, checkpointId) ==
    LET r == gateTagResponse(sid, signature)
    IN IF r # Await THEN r
       ELSE IF checkpointId \in {"task1", "task2"} THEN GateOpened
       ELSE InvalidCheckpoint

\* POST /api/verify-checkpoint-code, up to the return of findOne
confirmArrival(sid) ==
    IF Missing(sid) THEN MissingParameters
    ELSE IF ~Found(sid) THEN InvalidSession
    ELSE Await

\* POST /api/verify-checkpoint-code, from activeSessions.get to the call of
\* updateOne; ids is what the handler computed from the session it read
confirmResponse(verificationData, code, ids) ==
    IF verificationData = NoEntry THEN NoPendingVerification
    ELSE IF toUpperCase(verificationData.code) # toUpperCase(code) THEN InvalidCode
    ELSE IF verificationData.checkpoint \in ids THEN AlreadyCompleted
    ELSE Await

\* Checks that look at the expiry before the identity.
verifyExpiryFirst(found, keyDoc, hwid, t) ==
    IF ~found THEN InvalidKey
    ELSE IF isExpired(keyDoc, t) THEN KeyExpired
    ELSE IF keyDoc.hwid # hwid THEN HwidMismatch
    ELSE IF keyDoc.used THEN KeyAlreadyUsed
    ELSE Await

\* Checks that refuse the key of a session not marked completed.
verifyCompletedOnly(found, keyDoc, hwid, t) ==
    IF ~found THEN InvalidKey
    ELSE IF ~sessions[keyDoc.sessionId].completed THEN InvalidKey
    ELSE IF keyDoc.hwid # hwid THEN HwidMismatch
    ELSE IF isExpired(keyDoc, t) THEN KeyExpired
    ELSE IF keyDoc.used THEN KeyAlreadyUsed
    ELSE Await

\* POST /api/verify, the checks on what findOne returned
verifyResponse(found, keyDoc, hwid, t) ==
    IF ~found THEN InvalidKey
    ELSE IF keyDoc.hwid # hwid THEN HwidMismatch
    ELSE IF isExpired(keyDoc, t) THEN KeyExpired
    ELSE IF keyDoc.used THEN KeyAlreadyUsed
    ELSE Await

\* POST /api/verify, up to the call of updateOne
redeemResponse(k, hwid, t) ==
    IF Missing(k) THEN MissingParameters
    ELSE verifyResponse(HasKey(k), IF HasKey(k) THEN FindKey(k) ELSE << >>,
                        hwid, t)

----------------------------------------------------------------------------
Init ==
    /\ now = 0
    /\ ticks = 0
    /\ sessions = << >>
    /\ keys = << >>
    /\ generated = 0
    /\ activeSessions = [sid \in SessionIds |-> NoEntry]
    /\ inflight = [h \in Handlers |-> Idle]
    /\ redeemed = [k \in 1..MaxKeys |-> 0]

\* Handlers are anonymous: a new request is taken by the lowest idle one.
Free(h) ==
    /\ inflight[h] = Idle
    /\ \A g \in Handlers : g < h => inflight[g] # Idle

At(h, op, pc) == inflight[h].op = op /\ inflight[h].pc = pc

Park(h, locals) == inflight' = [inflight EXCEPT ![h] = locals]

Release(h) == inflight' = [inflight EXCEPT ![h] = Idle]

\* An update that sets the array to the new entry alone.
setCheckpoints(sid, entry) ==
    sessions' = [sessions EXCEPT ![sid].checkpoints = <<entry>>]

\* { $push: { checkpoints: entry } } on the session document
pushCheckpoint(sid, entry) ==
    sessions' = [sessions EXCEPT ![sid].checkpoints = Append(@, entry)]

Tick(d) ==
    /\ ticks < MaxTicks
    /\ now' = now + d
    /\ ticks' = ticks + 1
    /\ UNCHANGED <<sessions, keys, generated, activeSessions, inflight, redeemed>>

\* POST /api/start; sessionId = crypto.randomBytes(16) is a value no session
\* has yet
StartSession(ip, ua) ==
    /\ sessions' = Append(sessions, [sessionId |-> Len(sessions) + 1,
                                     hwid |-> generateHWID(ip, ua),
                                     timestamp |-> now,
                                     checkpoints |-> << >>,
                                     completed |-> FALSE,
                                     key |-> NoKeyRef])
    /\ UNCHANGED <<now, ticks, keys, generated, activeSessions, inflight, redeemed>>

\* POST /api/checkpoint, up to the call of updateOne
ConfirmCheckpointDirect(h, sid, signature, checkpointId) ==
    /\ Free(h)
    /\ IF directResponse(sid, signature, checkpointId) = Await
       THEN Park(h, [op |-> "checkpoint", pc |-> "push", sessionId |-> sid,
                     checkpointId |-> checkpointId])
       ELSE UNCHANGED inflight
    /\ UNCHANGED <<now, ticks, sessions, keys, generated, activeSessions, redeemed>>

\* POST /api/checkpoint: the store applies the $push and the handler answers
\* success with newSignature
CheckpointPush(h) ==
    /\ At(h, "checkpoint", "push")
    /\ Len(sessions[inflight[h].sessionId].checkpoints) < MaxCheckpoints
    /\ pushCheckpoint(inflight[h].sessionId, StrEntry(inflight[h].checkpointId))
    /\ Release(h)
    /\ UNCHANGED <<now, ticks, keys, generated, activeSessions, redeemed>>

\* POST /api/getkey, up to the call of insertOne
IssueCredential(h, sid, signature) ==
    /\ Free(h)
    /\ IF issueResponse(sid, signature) = Await
       THEN /\ generated' = generated + 1
            /\ Park(h, [op |-> "getkey", pc |-> "insert", sessionId |-> sid,
                        doc |-> [key |-> generated + 1,
                                 hwid |-> sessions[sid].hwid,
                                 sessionId |-> sid,
                                 createdAt |-> now,
                                 expiresAt |-> now + KEY_EXPIRY_MS,
                                 used |-> FALSE,
                                 usedAt |-> 0]])
       ELSE UNCHANGED <<inflight, generated>>
    /\ UNCHANGED <<now, ticks, sessions, keys, activeSessions, redeemed>>

\* An insertOne that is acknowledged and stores nothing.
insertNothing(h) ==
    /\ At(h, "getkey", "insert")
    /\ Park(h, [inflight[h] EXCEPT !.pc = "update"])
    /\ UNCHANGED <<now, ticks, sessions, keys, generated, activeSessions, redeemed>>

\* POST /api/getkey: the store applies insertOne
GetKeyInsert(h) ==
    /\ At(h, "getkey", "insert")
    /\ keys' = Append(keys, inflight[h].doc)
    /\ Park(h, [inflight[h] EXCEPT !.pc = "update"])
    /\ UNCHANGED <<now, ticks, sessions, generated, activeSessions, redeemed>>

\* POST /api/getkey: the store applies { $set: { completed: true, key } } and
\* the handler answers success with key and expiresAt
GetKeyUpdate(h) ==
    /\ At(h, "getkey", "update")
    /\ sessions' = [sessions EXCEPT ![inflight[h].sessionId].completed = TRUE,
                                    ![inflight[h].sessionId].key = inflight[h].doc.key]
    /\ Release(h)
    /\ UNCHANGED <<now, ticks, keys, generated, activeSessions, redeemed>>

\* POST /api/verify, up to the call of updateOne: findOne answers and the
\* handler runs its checks on the document it read
RedeemCredential(h, k, hwid) ==
    /\ Free(h)
    /\ IF redeemResponse(k, hwid, now) = Await
       THEN Park(h, [op |-> "verify", pc |-> "write", key |-> k, usedAt |-> now])
       ELSE UNCHANGED inflight
    /\ UNCHANGED <<now, ticks, sessions, keys, generated, activeSessions, redeemed>>

\* { $set: { used: true, usedAt } } on the first document with that key
markUsed(k, t) ==
    [keys EXCEPT ![KeyIndex(k)].used = TRUE, ![KeyIndex(k)].usedAt = t]

\* POST /api/verify: the store applies the update and the handler answers
\* success
VerifyWrite(h) ==
    /\ At(h, "verify", "write")
    /\ keys' = markUsed(inflight[h].key, inflight[h].usedAt)
    /\ redeemed' = [redeemed EXCEPT ![inflight[h].key] = @ + 1]
    /\ Release(h)
    /\ UNCHANGED <<now, ticks, sessions, generated, activeSessions>>

\* A gate that, replacing a pending entry, keeps the checkpoint it named.
gateKeepCheckpoint(sid, signature, checkpointId, verificationCode) ==
    /\ IF gateTagResponse(sid, signature) = Await
       THEN activeSessions' =
                sweep([activeSessions EXCEPT ![sid] =
                           [code |-> verificationCode,
                            checkpoint |-> IF activeSessions[sid] = NoEntry
                                           THEN checkpointId
                                           ELSE activeSessions[sid].checkpoint,
                            hwid |-> sessions[sid].hwid,
                            createdAt |-> now]], now)
       ELSE UNCHANGED activeSessions
    /\ UNCHANGED <<now, ticks, sessions, keys, generated, inflight, redeemed>>

\* POST /api/get-workink-link.  The handler has one await (findOne, which
\* reads only fields that never change); everything after it runs in one
\* piece, so the handler is one step.
RequestCheckpointGate(sid, signature, checkpointId, verificationCode) ==
    /\ IF gateTagResponse(sid, signature) = Await
       THEN activeSessions' =
                sweep([activeSessions EXCEPT ![sid] =
                           [code |-> verificationCode,
                            checkpoint |-> checkpointId,
                            hwid |-> sessions[sid].hwid,
                            createdAt |-> now]], now)
       ELSE UNCHANGED activeSessions
    /\ UNCHANGED <<now, ticks, sessions, keys, generated, inflight, redeemed>>

\* POST /api/verify-checkpoint-code, up to the return of findOne
ConfirmCheckpointCode(h, sid, code) ==
    /\ Free(h)
    /\ IF confirmArrival(sid) = Await
       THEN Park(h, [op |-> "confirm", pc |-> "check", sessionId |-> sid,
                     code |-> code,
                     completedIds |-> completedIds(sessions[sid].checkpoints)])
       ELSE UNCHANGED inflight
    /\ UNCHANGED <<now, ticks, sessions, keys, generated, activeSessions, redeemed>>

\* POST /api/verify-checkpoint-code: the lookup in activeSessions and the
\* checks, up to the call of updateOne
ConfirmCheck(h) ==
    /\ At(h, "confirm", "check")
    /\ LET l == inflight[h]
           verificationData == activeSessions[l.sessionId]
       IN IF confirmResponse(verificationData, l.code, l.completedIds) = Await
          THEN Park(h, [op |-> "confirm", pc |-> "push", sessionId |-> l.sessionId,
                        code |-> l.code,
                        checkpoint |-> verificationData.checkpoint,
                        completedAt |-> now])
          ELSE Release(h)
    /\ UNCHANGED <<now, ticks, sessions, keys, generated, activeSessions, redeemed>>

\* POST /api/verify-checkpoint-code: the store applies the $push
ConfirmPush(h) ==
    /\ At(h, "confirm", "push")
    /\ Len(sessions[inflight[h].sessionId].checkpoints) < MaxCheckpoints
    /\ pushCheckpoint(inflight[h].sessionId,
                      ObjEntry(inflight[h].checkpoint, inflight[h].completedAt))
    /\ Park(h, [inflight[h] EXCEPT !.pc = "finish"])
    /\ UNCHANGED <<now, ticks, keys, generated, activeSessions, redeemed>>

\* POST /api/verify-checkpoint-code: after the update, the handler deletes
\* the pending entry and answers success with startSignature
ConfirmFinish(h) ==
    /\ At(h, "confirm", "finish")
    /\ activeSessions' = [activeSessions EXCEPT ![inflight[h].sessionId] = NoEntry]
    /\ Release(h)
    /\ UNCHANGED <<now, ticks, sessions, keys, generated, redeemed>>

----------------------------------------------------------------------------
(* Specifications *)

SessionArgs == {0} \cup SessionIds
KeyArgs == 0..MaxKeys

Clock(steps) == \E d \in steps : Tick(d)

Start(ids, ips) ==
    /\ Len(sessions) + 1 \in ids
    /\ \E ip \in ips, ua \in UserAgents : StartSession(ip, ua)

Direct(sids, cps) ==
    \E h \in Handlers, sid \in sids, cp \in cps :
        \E sig \in Signatures(sid) : ConfirmCheckpointDirect(h, sid, sig, cp)

DirectPush == \E h \in Handlers : CheckpointPush(h)

Gate(sids, cps, codes) ==
    \E sid \in sids, cp \in cps, code \in codes :
        \E sig \in Signatures(sid) : RequestCheckpointGate(sid, sig, cp, code)

Code(sids) ==
    \E h \in Handlers, sid \in sids, code \in ClientCodes :
        ConfirmCheckpointCode(h, sid, code)

CodeCheck == \E h \in Handlers : ConfirmCheck(h)
CodePush == \E h \in Handlers : ConfirmPush(h)
CodeFinish == \E h \in Handlers : ConfirmFinish(h)

\* max caps the number of keys generateKey() produces in a run
Issue(sids, max) ==
    /\ generated < max
    /\ \E h \in Handlers, sid \in sids :
           \E sig \in Signatures(sid) : IssueCredential(h, sid, sig)

IssueInsert == \E h \in Handlers : GetKeyInsert(h)
IssueUpdate == \E h \in Handlers : GetKeyUpdate(h)

Redeem ==
    \E h \in Handlers, k \in KeyArgs, hwid \in HWIDs : RedeemCredential(h, k, hwid)

RedeemWrite == \E h \in Handlers : VerifyWrite(h)

\* The whole server.
Next ==
    \/ Clock(TickSteps)
    \/ Start(SessionIds, IPs)
    \/ Direct(SessionArgs, CheckpointIds) \/ DirectPush
    \/ Gate(SessionArgs, CheckpointIds, GenCodes)
    \/ Code(SessionArgs) \/ CodeCheck \/ CodePush \/ CodeFinish
    \/ Issue(SessionArgs, MaxKeys) \/ IssueInsert \/ IssueUpdate
    \/ Redeem \/ RedeemWrite

Spec == Init /\ [][Next]_vars

\* The checkpoint state machine of one session: its checkpoints and its
\* pending verification.  No operation left out reads or writes either.
NextCheckpoint ==
    \/ Start(OneSession, OneIP)
    \/ Direct(SessionArgs, KnownCheckpoints) \/ DirectPush
    \/ Gate(SessionArgs, KnownCheckpoints, OneCode)
    \/ Code(SessionArgs) \/ CodeCheck \/ CodePush \/ CodeFinish

SpecCheckpoint == Init /\ [][NextCheckpoint]_vars

\* Issuance for one session: the checkpoint state machine and /api/getkey.
\* /api/verify, left out, writes only the used flag of a key, which issuance
\* never reads.
NextIssue ==
    \/ Start(OneSession, OneIP)
    \/ Direct(SessionArgs, KnownCheckpoints) \/ DirectPush
    \/ Gate(SessionArgs, KnownCheckpoints, OneCode)
    \/ Code(SessionArgs) \/ CodeCheck \/ CodePush \/ CodeFinish
    \/ Issue(SessionArgs, MaxKeys) \/ IssueInsert \/ IssueUpdate

SpecIssue == Init /\ [][NextIssue]_vars

\* Redemption: /api/verify and what it takes to put a key in the store.
\* /api/getkey counts only the checkpoints /api/checkpoint pushes, so the
\* challenge-code path, left out, never changes what /api/verify can read.
NextRedeem ==
    \/ Clock({KEY_EXPIRY_MS, KEY_EXPIRY_MS + 1})
    \/ Start(OneSession, OneIP)
    \/ Direct(OneSession, KnownCheckpoints) \/ DirectPush
    \/ Issue(OneSession, MaxKeys) \/ IssueInsert \/ IssueUpdate
    \/ Redeem \/ RedeemWrite

SpecRedeem == Init /\ [][NextRedeem]_vars

\* Repeated issuance for one session.  /api/getkey counts only the
\* checkpoints /api/checkpoint pushes, and nothing left out writes a session
\* or a key's sessionId, hwid or key.
NextReissue ==
    \/ Start(OneSession, OneIP)
    \/ Direct(OneSession, CheckpointIds) \/ DirectPush
    \/ Issue(OneSession, MaxIssues) \/ IssueInsert \/ IssueUpdate

SpecReissue == Init /\ [][NextReissue]_vars

\* The pending verification of one session under the clock: the gate and
\* the challenge-code confirmations.
NextPending ==
    \/ Clock({PENDING_TTL_MS, PENDING_TTL_MS + 1})
    \/ Start(OneSession, OneIP)
    \/ Gate(SessionArgs, KnownCheckpoints, OneCode)
    \/ Code(SessionArgs) \/ CodeCheck \/ CodePush \/ CodeFinish

SpecPending == Init /\ [][NextPending]_vars

\* The pending verification of one session, the gate asked with any
\* checkpoint id and answering with any code.
NextGate ==
    \/ Start(OneSession, OneIP)
    \/ Gate(OneSession, CheckpointIds, GenCodes)
    \/ Code(OneSession) \/ CodeCheck \/ CodePush \/ CodeFinish

SpecGate == Init /\ [][NextGate]_vars

\* The pending-verification table of two sessions under the clock: the gate
\* and its sweep.  With the confirmations left out, the gate alone writes
\* the table.
NextSweep ==
    \/ Clock({1, PENDING_TTL_MS, PENDING_TTL_MS + 1})
    \/ Start(SessionIds, IPs)
    \/ Gate(SessionArgs, KnownCheckpoints, GenCodes)

SpecSweep == Init /\ [][NextSweep]_vars

----------------------------------------------------------------------------
(* Properties *)

\* checkpoint cp is recorded for session s, as a string or as an object
Recorded(s, cp) ==
    \E i \in DOMAIN sessions[s].checkpoints : sessions[s].checkpoints[i].id = cp

\* the server's tag over { sessionId, hwid } of session s
idTag(s) == signData(IdPayload(sessions[s]))

\* two codes are equal up to the case of their letters
SameIgnoringCase(a, b) ==
    /\ Len(a) = Len(b)
    /\ \A i \in DOMAIN a :
           \/ a[i] = b[i]
           \/ {a[i], b[i]} \in {{"a", "A"}, {"b", "B"}}

\* C1: of the /api/verify requests that carry one key, sequential or
\* concurrent, at most one is answered with success.
C1_SingleUse == \A k \in DOMAIN redeemed : redeemed[k] <= 1

\* C2: in every reachable state the checkpoints of a session hold at most one
\* entry per checkpoint identifier.
C2_NoDuplicateCheckpoint ==
    \A s \in DOMAIN sessions :
        \A i, j \in DOMAIN sessions[s].checkpoints :
            sessions[s].checkpoints[i].id = sessions[s].checkpoints[j].id => i = j

\* C3: full flow.  Once task1 and task2 are both recorded through the
\* challenge-code path, /api/getkey presented with the tag /api/start and the
\* confirmations returned goes on to issue a key.
C3_FullFlowIssues ==
    \A s \in DOMAIN sessions :
        {"task1", "task2"} \subseteq completedIds(sessions[s].checkpoints)
            => issueResponse(s, startSignature(sessions[s])) = Await

\* C4: every key in the store, and every key a handler is about to store,
\* belongs to a session with task1 and task2 both recorded; on a session that
\* lacks one of them /api/getkey with a valid tag answers "Not all checkpoints
\* completed" and the session's completed flag is false.
C4_IssuedOnlyWhenComplete ==
    /\ \A i \in DOMAIN keys :
           Recorded(keys[i].sessionId, "task1") /\ Recorded(keys[i].sessionId, "task2")
    /\ \A h \in Handlers :
           inflight[h].op = "getkey"
               => /\ Recorded(inflight[h].sessionId, "task1")
                  /\ Recorded(inflight[h].sessionId, "task2")
    /\ \A s \in DOMAIN sessions :
           ~(Recorded(s, "task1") /\ Recorded(s, "task2"))
               => /\ issueResponse(s, idTag(s)) = NotAllCheckpoints
                  /\ sessions[s].completed = FALSE

\* C4, its case: a key is in the store, and its session is marked completed.
C4_Witness ==
    \E i \in DOMAIN keys : sessions[keys[i].sessionId].completed

\* C5: /api/getkey with a valid tag over { sessionId, hwid } goes on to issue
\* a key whenever task1 and task2 are both recorded, whichever handler
\* recorded each of them and in whatever order.
C5_IssuesWhateverPath ==
    \A s \in DOMAIN sessions :
        Recorded(s, "task1") /\ Recorded(s, "task2")
            => issueResponse(s, idTag(s)) = Await

\* C6: on an existing session, every tag other than the server's own is
\* answered "Invalid signature" by /api/checkpoint, /api/getkey and
\* /api/get-workink-link, whatever its length or content.
C6_TamperRejected ==
    \A s \in DOMAIN sessions :
        \A sig \in Signatures(s) :
            /\ sig # idTag(s)
                   => /\ directResponse(s, sig, "task1") = InvalidSignature
                      /\ issueResponse(s, sig) = InvalidSignature
            /\ sig # startSignature(sessions[s])
                   => gateTagResponse(s, sig) = GateInvalidSignature

\* C7: /api/verify presented with the bound hwid of a key whose expiresAt is
\* earlier than the current time answers "Key expired", used or not, and
\* the request leaves the key store as it is and schedules no update.
C7_ExpiredRejected ==
    /\ [](\A i \in DOMAIN keys :
              keys[i].expiresAt < now
                  => redeemResponse(keys[i].key, keys[i].hwid, now) = KeyExpired)
    /\ [][\A h \in Handlers : \A i \in DOMAIN keys :
              keys[i].expiresAt < now
              /\ RedeemCredential(h, keys[i].key, keys[i].hwid)
                  => keys' = keys /\ inflight' = inflight]_vars

\* C7, its case: a used key in the store has expired.
C7_Witness ==
    \E i \in DOMAIN keys : keys[i].expiresAt < now /\ keys[i].used

\* C8: /api/verify presented with an existing key and an hwid other than the
\* key's answers "HWID mismatch", expired or not, used or not, and leaves the
\* key store as it is and schedules no update; an unexpired unused key is
\* still redeemable with its own hwid.
C8_IdentityMismatch ==
    /\ [](\A i \in DOMAIN keys :
              /\ \A hwid \in HWIDs \ {keys[i].hwid} :
                     redeemResponse(keys[i].key, hwid, now) = HwidMismatch
              /\ ~keys[i].used /\ ~(keys[i].expiresAt < now)
                     => redeemResponse(keys[i].key, keys[i].hwid, now) = Await)
    /\ [][\A h \in Handlers : \A i \in DOMAIN keys :
              \A hwid \in HWIDs \ {keys[i].hwid} :
                  RedeemCredential(h, keys[i].key, hwid)
                      => keys' = keys /\ inflight' = inflight]_vars

\* C8, its case: an unused key in the store has expired, and there is an
\* hwid other than the key's to present it with.
C8_Witness ==
    \E i \in DOMAIN keys :
        /\ keys[i].expiresAt < now /\ ~keys[i].used
        /\ HWIDs \ {keys[i].hwid} # {}

\* C9: with a pending verification for checkpoint C under code K, a
\* /api/verify-checkpoint-code whose code differs from K otherwise than by
\* letter case answers "Invalid verification code" and changes neither the
\* pending entry nor the session; one whose code is K in any letter case, C
\* not being among the ids it read, goes on to push C, and when it finishes C
\* is recorded and the pending entry is gone.
C9_GateThenConfirm ==
    [][\A h \in Handlers :
          /\ ConfirmCheck(h) /\ activeSessions[inflight[h].sessionId] # NoEntry
                 => LET l == inflight[h]
                        e == activeSessions[l.sessionId]
                    IN IF ~SameIgnoringCase(e.code, l.code)
                       THEN /\ confirmResponse(e, l.code, l.completedIds) = InvalidCode
                            /\ inflight'[h] = Idle
                            /\ activeSessions' = activeSessions
                            /\ sessions' = sessions
                       ELSE e.checkpoint \notin l.completedIds
                                => /\ inflight'[h].op = "confirm"
                                   /\ inflight'[h].pc = "push"
                                   /\ inflight'[h].checkpoint = e.checkpoint
          /\ ConfirmPush(h)
                 => /\ Len(sessions'[inflight[h].sessionId].checkpoints)
                           = Len(sessions[inflight[h].sessionId].checkpoints) + 1
                    /\ activeSessions' = activeSessions
          /\ ConfirmFinish(h)
                 => /\ \E i \in DOMAIN sessions'[inflight[h].sessionId].checkpoints :
                           sessions'[inflight[h].sessionId].checkpoints[i]
                               = ObjEntry(inflight[h].checkpoint, inflight[h].completedAt)
                    /\ activeSessions'[inflight[h].sessionId] = NoEntry]_vars

\* C9, its case: a confirmation that presented the code in lower case has
\* pushed its checkpoint and is about to delete the pending entry.
C9_Witness ==
    \E h \in Handlers :
        /\ At(h, "confirm", "finish")
        /\ inflight[h].code = <<"a", "7">>
        /\ Recorded(inflight[h].sessionId, inflight[h].checkpoint)

\* C10: a confirmation of a checkpoint already recorded for the session, by
\* either path and whichever path recorded it, answers "Checkpoint already
\* completed" and so pushes nothing.
C10_Idempotent ==
    \A s \in DOMAIN sessions :
        /\ \A cp \in KnownCheckpoints :
               Recorded(s, cp) => directResponse(s, idTag(s), cp) = AlreadyCompleted
        /\ activeSessions[s] # NoEntry /\ Recorded(s, activeSessions[s].checkpoint)
               => confirmResponse(activeSessions[s], activeSessions[s].code,
                                  completedIds(sessions[s].checkpoints))
                      = AlreadyCompleted

\* C11: a pending verification older than the 10-minute TTL is gone from the
\* table, whatever requests have or have not arrived since, so that
\* /api/verify-checkpoint-code arriving then answers "No pending
\* verification", whatever code it carries.
C11_StaleEntryGone ==
    \A s \in DOMAIN sessions :
        activeSessions[s] # NoEntry
        /\ now - activeSessions[s].createdAt > PENDING_TTL_MS
            => \A code \in ClientCodes :
                   confirmResponse(activeSessions[s], code,
                                   completedIds(sessions[s].checkpoints))
                       = NoPendingVerification

\* C12: /api/getkey with a valid tag on a session already completed goes on
\* to issue; the insert appends a credential whose key no stored credential
\* has, bound to the session's sessionId and hwid, and leaves the stored
\* credentials as they are; every stored credential, unused and unexpired,
\* is redeemable with its hwid; and the session update sets the session's key
\* to the key of the credential its handler inserted.
C12_DoubleIssuance ==
    /\ [](/\ \A s \in DOMAIN sessions :
                sessions[s].completed => issueResponse(s, idTag(s)) = Await
          /\ \A i \in DOMAIN keys :
                /\ \A j \in DOMAIN keys : keys[i].key = keys[j].key => i = j
                /\ keys[i].hwid = sessions[keys[i].sessionId].hwid
                /\ ~keys[i].used /\ ~(keys[i].expiresAt < now)
                       => redeemResponse(keys[i].key, keys[i].hwid, now) = Await)
    /\ [][\A h \in Handlers :
              /\ GetKeyInsert(h)
                     => /\ Len(keys') = Len(keys) + 1
                        /\ \A i \in DOMAIN keys :
                               keys'[i] = keys[i] /\ keys[i].key # keys'[Len(keys')].key
                        /\ keys'[Len(keys')].sessionId = inflight[h].sessionId
                        /\ keys'[Len(keys')].used = FALSE
              /\ GetKeyUpdate(h)
                     => /\ sessions'[inflight[h].sessionId].key = inflight[h].doc.key
                        /\ keys' = keys]_vars

\* C12, its case: the store holds two credentials of one session under
\* different keys, the session names the second, and its /api/getkey
\* handlers are done.
C12_Witness ==
    /\ Len(keys) >= 2
    /\ keys[1].sessionId = keys[2].sessionId
    /\ keys[1].key # keys[2].key
    /\ sessions[keys[2].sessionId].completed
    /\ sessions[keys[2].sessionId].key = keys[2].key
    /\ \A h \in Handlers : inflight[h] = Idle

\* C13: a successful /api/get-workink-link makes the session's pending
\* verification the one it names: its code and its checkpoint, whatever entry
\* the session had.  From then on /api/verify-checkpoint-code answers "Invalid
\* verification code" to every code that differs from the new one otherwise
\* than by letter case, the earlier code among them, and a confirmation that
\* passes its checks pushes the checkpoint of the entry it found.  (A step
\* that changes the table and no handler is a step of the gate.)
C13_LatestGateWins ==
    [][/\ activeSessions' # activeSessions /\ inflight' = inflight
              => \A sid \in DOMAIN sessions, cp \in CheckpointIds, code \in GenCodes :
                     \A sig \in Signatures(sid) :
                         gateResponse(sid, sig, cp) = GateOpened
                         /\ RequestCheckpointGate(sid, sig, cp, code)
                             => /\ activeSessions'[sid].code = code
                                /\ activeSessions'[sid].checkpoint = cp
                                /\ \A c \in ClientCodes :
                                       ~SameIgnoringCase(c, code)
                                           => confirmResponse(activeSessions'[sid],
                                                              c, {}) = InvalidCode
       /\ \A h \in Handlers :
              ConfirmCheck(h) /\ inflight'[h] # Idle
                  => /\ SameIgnoringCase(inflight[h].code,
                                         activeSessions[inflight[h].sessionId].code)
                     /\ inflight'[h].checkpoint
                            = activeSessions[inflight[h].sessionId].checkpoint]_vars

\* C13, its case: after a gate request that returned code A7 and one for
\* task2 that returned B7, a confirmation carrying A7 is about to be checked.
C13_Witness ==
    \E h \in Handlers :
        /\ At(h, "confirm", "check")
        /\ inflight[h].code = <<"A", "7">>
        /\ activeSessions[inflight[h].sessionId] # NoEntry
        /\ activeSessions[inflight[h].sessionId].code = <<"B", "7">>
        /\ activeSessions[inflight[h].sessionId].checkpoint = "task2"
        /\ Recorded(inflight[h].sessionId, "task1")

\* C14: a session marked completed has a credential in the key store, and
\* the key a session names is the key of a stored credential of that session
\* and hwid.
C14_CompletedHasCredential ==
    \A s \in DOMAIN sessions :
        /\ sessions[s].completed
               => \E i \in DOMAIN keys : keys[i].sessionId = sessions[s].sessionId
        /\ sessions[s].key # NoKeyRef
               => \E i \in DOMAIN keys :
                      /\ keys[i].key = sessions[s].key
                      /\ keys[i].sessionId = sessions[s].sessionId
                      /\ keys[i].hwid = sessions[s].hwid

\* C14, its case: a session is marked completed by one /api/getkey while a
\* second one on it has inserted its credential and not yet updated the
\* session.
C14_Witness ==
    \E s \in DOMAIN sessions :
        /\ sessions[s].completed
        /\ \E h \in Handlers :
               /\ At(h, "getkey", "update") /\ inflight[h].sessionId = s
               /\ inflight[h].doc.key # sessions[s].key
               /\ HasKey(inflight[h].doc.key)

\* C15: a /api/get-workink-link that is answered with a rejection leaves the
\* pending-verification table as it was.
C15_RejectedGateLeavesTable ==
    [][activeSessions' # activeSessions /\ inflight' = inflight
           => \A sid \in DOMAIN sessions, cp \in CheckpointIds, code \in GenCodes :
                  \A sig \in Signatures(sid) :
                      gateResponse(sid, sig, cp) # GateOpened
                          => ~RequestCheckpointGate(sid, sig, cp, code)]_vars

\* C16: every checkpoint identifier recorded for a session is task1 or task2.
C16_KnownCheckpointsOnly ==
    \A s \in DOMAIN sessions :
        \A i \in DOMAIN sessions[s].checkpoints :
            sessions[s].checkpoints[i].id \in {"task1", "task2"}

\* the tags the server can compute for session s
TagsOf(s) ==
    {startSignature(sessions[s]), idTag(s)}
    \cup {newSignature(sessions[s], cp) : cp \in CheckpointIds}

\* C17: on a session, /api/checkpoint and /api/getkey answer "Invalid
\* signature" to the session's tag over { sessionId, hwid, timestamp },
\* /api/get-workink-link answers "Invalid signature" to the session's tags
\* over { sessionId, hwid } and over { sessionId, hwid, checkpoint }, and all
\* three answer so to every tag computed for another session.
C17_TagScopes ==
    \A s \in DOMAIN sessions :
        /\ \A cp \in CheckpointIds :
               directResponse(s, startSignature(sessions[s]), cp) = InvalidSignature
        /\ issueResponse(s, startSignature(sessions[s])) = InvalidSignature
        /\ \A sig \in TagsOf(s) \ {startSignature(sessions[s])} :
               gateTagResponse(s, sig) = GateInvalidSignature
        /\ \A t \in DOMAIN sessions \ {s} :
               \A sig \in TagsOf(t) :
                   /\ \A cp \in CheckpointIds :
                          directResponse(s, sig, cp) = InvalidSignature
                   /\ issueResponse(s, sig) = InvalidSignature
                   /\ gateTagResponse(s, sig) = GateInvalidSignature

\* C17, its case: two sessions of one hwid started at the same millisecond,
\* whose payloads differ in the sessionId alone, and the gate has accepted
\* the first one's own tag.
C17_Witness ==
    /\ Len(sessions) = 2
    /\ sessions[1].hwid = sessions[2].hwid
    /\ sessions[1].timestamp = sessions[2].timestamp
    /\ activeSessions[1] # NoEntry
    /\ activeSessions[2] = NoEntry

\* C18: no step removes or alters an entry of a session's checkpoints, and
\* each push of a confirmation adds an entry for its own checkpoint; so of two
\* concurrent confirmations of different checkpoints both end up recorded.
C18_NoLostAppend ==
    [][/\ \A s \in DOMAIN sessions :
              \A i \in DOMAIN sessions[s].checkpoints :
                  /\ i \in DOMAIN sessions'[s].checkpoints
                  /\ sessions'[s].checkpoints[i] = sessions[s].checkpoints[i]
       /\ \A h \in Handlers :
              /\ CheckpointPush(h)
                     => LET cps == sessions'[inflight[h].sessionId].checkpoints
                        IN cps[Len(cps)] = StrEntry(inflight[h].checkpointId)
              /\ ConfirmPush(h)
                     => LET cps == sessions'[inflight[h].sessionId].checkpoints
                        IN cps[Len(cps)].id = inflight[h].checkpoint]_vars

\* C18, its case: two /api/checkpoint requests on one session, one for task1
\* and one for task2, have both read the session and neither has pushed.
C18_Witness ==
    \E h, g \in Handlers :
        /\ At(h, "checkpoint", "push") /\ At(g, "checkpoint", "push")
        /\ inflight[h].sessionId = inflight[g].sessionId
        /\ inflight[h].checkpointId = "task1"
        /\ inflight[g].checkpointId = "task2"
        /\ sessions[inflight[h].sessionId].checkpoints = << >>

\* C19: a pending verification not older than the TTL is not deleted by any
\* sweep: it stays as it is unless a gate request of its own session replaces
\* it or its confirmation deletes it; and the entry a gate request stores is
\* in the table, with the code of that request, when the request's own sweep
\* is done.
C19_SweepSparesYoung ==
    [][activeSessions' # activeSessions
           => /\ \A s \in SessionIds :
                     activeSessions[s] # NoEntry
                     /\ now - activeSessions[s].createdAt <= PENDING_TTL_MS
                         => \/ activeSessions'[s] = activeSessions[s]
                            \/ /\ activeSessions'[s] # NoEntry
                               /\ activeSessions'[s].createdAt = now
                            \/ \E h \in Handlers :
                                   ConfirmFinish(h) /\ inflight[h].sessionId = s
              /\ inflight' = inflight
                     => \A sid \in DOMAIN sessions, cp \in CheckpointIds,
                           code \in GenCodes :
                            \A sig \in Signatures(sid) :
                                gateTagResponse(sid, sig) = Await
                                /\ RequestCheckpointGate(sid, sig, cp, code)
                                    => /\ activeSessions'[sid] # NoEntry
                                       /\ activeSessions'[sid].code = code]_vars

\* C19, its case: the gate request of session 2 ran its sweep when the
\* pending verification of session 1 was exactly as old as the TTL, and both
\* entries are in the table.
C19_Witness ==
    /\ activeSessions[1] # NoEntry
    /\ activeSessions[2] # NoEntry
    /\ activeSessions[2].createdAt - activeSessions[1].createdAt = PENDING_TTL_MS

\* C20: /api/getkey inserts the credential and then updates the session, so
\* between the two the store holds the credential, unused, of a session not
\* marked completed.  What /api/verify answers for a stored credential is
\* fixed by the credential, the hwid presented and the time, whatever the
\* session's state: an unused unexpired credential is redeemable with its
\* hwid.  No step of /api/verify changes a session, and the insert changes
\* none.
C20_RedeemIgnoresSession ==
    /\ [](\A i \in DOMAIN keys : \A hwid \in HWIDs :
              redeemResponse(keys[i].key, hwid, now)
                  = IF keys[i].hwid # hwid THEN HwidMismatch
                    ELSE IF keys[i].expiresAt < now THEN KeyExpired
                    ELSE IF keys[i].used THEN KeyAlreadyUsed
                    ELSE Await)
    /\ [][/\ sessions' # sessions
              => \A h \in Handlers :
                     /\ ~VerifyWrite(h)
                     /\ ~GetKeyInsert(h)
                     /\ \A k \in KeyArgs, hwid \in HWIDs : ~RedeemCredential(h, k, hwid)
          /\ \A h \in Handlers :
                 GetKeyInsert(h)
                     => /\ keys'[Len(keys')].used = FALSE
                        /\ sessions'[inflight[h].sessionId].completed
                               = sessions[inflight[h].sessionId].completed]_vars

\* C20, its case: a credential has been inserted and redeemed while the
\* /api/getkey that inserted it has not yet updated the session, which is not
\* marked completed.
C20_Witness ==
    \E h \in Handlers :
        /\ At(h, "getkey", "update")
        /\ ~sessions[inflight[h].sessionId].completed
        /\ HasKey(inflight[h].doc.key)
        /\ FindKey(inflight[h].doc.key).used
        /\ redeemed[inflight[h].doc.key] = 1

====
